---- MODULE Spec2Model ----
(***************************************************************************)
(* Expense ledger, query/aggregation engine and categorization-feedback    *)
(* ledger of the expense-manager bot's Convex backend.                     *)
(*                                                                         *)
(* The durable store is three tables (users, expenses, category_feedback); *)
(* a document's _id is its position in the table, which is also its        *)
(* _creationTime order.  Every Convex mutation or query is one atomic      *)
(* action.  `last` is what the caller of the most recent operation saw:    *)
(* its arguments and its return value or the error it threw.               *)
(*                                                                         *)
(* Strings the handlers inspect (trim, toLowerCase, length) are sequences  *)
(* of one-character strings; an optional argument or field is <<>> when    *)
(* absent and <<x>> when present.                                          *)
(***************************************************************************)
EXTENDS Integers, Sequences, FiniteSets, TLC

VARIABLES users, expenses, category_feedback, now, last

vars == <<users, expenses, category_feedback, now, last>>

----------------------------------------------------------------------------
(* Optional values *)

None == <<>>

Some(x) == <<x>>

IsSome(o) == o # <<>>

Get(o) == o[1]

----------------------------------------------------------------------------
(* JavaScript string primitives used by the handlers *)

Whitespace == {" ", "\t", "\n"}

\* String.prototype.toLowerCase on one character.
LowerChar(c) ==
    CASE c = "F" -> "f"
      [] c = "O" -> "o"
      [] c = "D" -> "d"
      [] c = "T" -> "t"
      [] c = "B" -> "b"
      [] c = "U" -> "u"
      [] c = "S" -> "s"
      [] OTHER -> c

toLowerCase(s) == [i \in 1..Len(s) |-> LowerChar(s[i])]

RECURSIVE trimStart(_)
trimStart(s) ==
    IF s # <<>> /\ Head(s) \in Whitespace THEN trimStart(Tail(s)) ELSE s

RECURSIVE trimEnd(_)
trimEnd(s) ==
    IF s # <<>> /\ s[Len(s)] \in Whitespace
    THEN trimEnd(SubSeq(s, 1, Len(s) - 1))
    ELSE s

\* String.prototype.trim
trim(s) == trimEnd(trimStart(s))

----------------------------------------------------------------------------
(* Time *)

HourMs == 60 * 60 * 1000

\* 24*60*60*1000, the forward tolerance of logExpense
DayMs == 24 * 60 * 60 * 1000

\* The clock's first reading (one day after the epoch).
Now0 == DayMs

\* The clock advances in steps of two hours.
TickMs == 2 * HourMs

----------------------------------------------------------------------------
(* The store: ctx.db *)

\* ctx.db.query(...).unique(): null when nothing matches, the document when
\* exactly one does, and an exception when several do.
unique(ids) ==
    IF ids = {} THEN [kind |-> "null", id |-> 0]
    ELSE IF Cardinality(ids) = 1
         THEN [kind |-> "doc", id |-> CHOOSE i \in ids : TRUE]
         ELSE [kind |-> "throws", id |-> 0]

\* users.withIndex("by_username", q => q.eq("username", username))
by_username(username) ==
    {i \in 1..Len(users) : users[i].username = username}

\* users.withIndex("by_telegram_chat_id", q => q.eq("telegramChatId", chat));
\* a user stored without a chat id matches no string.
by_telegram_chat_id(telegramChatId) ==
    {i \in 1..Len(users) : users[i].telegramChatId = Some(telegramChatId)}

\* The lookup every handler starts with.
findUser(telegramChatId) == unique(by_telegram_chat_id(telegramChatId))

\* Key order of the index by_userId_date within one user: date, then
\* _creationTime (the position in the table).
KeyLess(i, j) ==
    \/ expenses[i].date < expenses[j].date
    \/ expenses[i].date = expenses[j].date /\ i < j

RECURSIVE Ascending(_)
Ascending(ids) ==
    IF ids = {} THEN <<>>
    ELSE LET m == CHOOSE i \in ids : \A j \in ids \ {i} : KeyLess(i, j)
         IN  <<m>> \o Ascending(ids \ {m})

Reverse(s) == [i \in 1..Len(s) |-> s[Len(s) + 1 - i]]

\* The range with its upper bound exclusive: .lt("date", endDate).
InDateRange_exclusiveEnd(date, startDate, endDate) ==
    startDate <= date /\ date < endDate

\* .gte("date", startDate).lte("date", endDate)
InDateRange(date, startDate, endDate) == startDate <= date /\ date <= endDate

\* The index read without its q.eq("userId", ...) bound.
by_userId_anyUser(userId) == 1..Len(expenses)

\* expenses.withIndex("by_userId_date", q => q.eq("userId", userId)): the ids
\* of the user's expenses.
by_userId(userId) ==
    {i \in 1..Len(expenses) : expenses[i].userId = userId}

\* expenses.withIndex("by_userId_date",
\*     q => q.eq("userId", userId).gte("date", startDate).lte("date", endDate))
by_userId_date(userId, startDate, endDate) ==
    {i \in by_userId(userId) :
        InDateRange(expenses[i].date, startDate, endDate)}

\* .collect() and .order("asc").collect(): the documents in index order.
collect(ids) == [k \in 1..Len(Ascending(ids)) |-> expenses[Ascending(ids)[k]]]

\* .order("desc"): the index read backwards.
orderDesc(ids) == Reverse(Ascending(ids))

\* .take(n)
take(s, n) == SubSeq(s, 1, IF n < Len(s) THEN n ELSE Len(s))

----------------------------------------------------------------------------
(* What the caller sees *)

Returned(op, args, result) ==
    [op |-> op, args |-> args, ok |-> TRUE, error |-> "", result |-> result]

Threw(op, args, error) ==
    [op |-> op, args |-> args, ok |-> FALSE, error |-> error, result |-> <<>>]

----------------------------------------------------------------------------
(* convex/auth.ts *)

MinPasswordLength == 6

registerUser(username, password, telegramChatId) ==
    LET args == [username |-> username, password |-> password,
                 telegramChatId |-> telegramChatId]
        existingUser == unique(by_username(username))
        hashedPassword == password
        userId == Len(users) + 1
    IN  /\ UNCHANGED <<expenses, category_feedback, now>>
        /\ IF existingUser.kind = "throws"
           THEN /\ last' = Threw("registerUser", args, "NotUnique")
                /\ UNCHANGED users
           ELSE IF existingUser.kind = "doc"
           THEN /\ last' = Threw("registerUser", args, "UsernameTaken")
                /\ UNCHANGED users
           ELSE IF Len(hashedPassword) < MinPasswordLength
           THEN /\ last' = Threw("registerUser", args, "PasswordTooShort")
                /\ UNCHANGED users
           ELSE /\ users' = Append(users,
                        [username |-> username,
                         hashedPassword |-> hashedPassword,
                         telegramChatId |-> telegramChatId])
                /\ last' = Returned("registerUser", args,
                        [success |-> TRUE, userId |-> userId,
                         username |-> username])

----------------------------------------------------------------------------
(* logExpense *)

\* args.description?.trim() || undefined
storedDescription(description) ==
    IF IsSome(description) /\ trim(Get(description)) # <<>>
    THEN Some(trim(Get(description)))
    ELSE None

\* The document both versions of logExpense insert.
expenseDoc(userId, amount, category, description, date) ==
    [userId |-> userId,
     amount |-> amount,
     category |-> trim(category),
     description |-> storedDescription(description),
     date |-> date]

\* The validating logExpense: user lookup, the four checks in their order,
\* then the insert.
logExpense(telegramChatId, amount, category, description, date) ==
    LET args == [telegramChatId |-> telegramChatId, amount |-> amount,
                 category |-> category, description |-> description,
                 date |-> date, now |-> now]
        user == findUser(telegramChatId)
        expenseId == Len(expenses) + 1
        fails(error) == /\ last' = Threw("logExpense", args, error)
                        /\ UNCHANGED expenses
    IN  /\ UNCHANGED <<users, category_feedback, now>>
        /\ IF user.kind = "throws" THEN fails("NotUnique")
           ELSE IF user.kind = "null" THEN fails("UserNotFound")
           ELSE IF amount <= 0 THEN fails("InvalidAmount")
           ELSE IF category = <<>> \/ trim(category) = <<>>
           THEN fails("InvalidCategory")
           ELSE IF date > now + DayMs THEN fails("InvalidDate")
           ELSE IF date < 0 THEN fails("InvalidDate")
           ELSE /\ expenses' = Append(expenses,
                        expenseDoc(user.id, amount, category, description, date))
                /\ last' = Returned("logExpense", args,
                        [success |-> TRUE, expenseId |-> expenseId])

\* logExpense as convex/expenses.ts defines it: user lookup, then the insert.
logExpense_convex(telegramChatId, amount, category, description, date) ==
    LET args == [telegramChatId |-> telegramChatId, amount |-> amount,
                 category |-> category, description |-> description,
                 date |-> date, now |-> now]
        user == unique(by_telegram_chat_id(telegramChatId))
        expenseId == Len(expenses) + 1
        fails(error) == /\ last' = Threw("logExpense", args, error)
                        /\ UNCHANGED expenses
    IN  /\ UNCHANGED <<users, category_feedback, now>>
        /\ IF user.kind = "throws" THEN fails("NotUnique")
           ELSE IF user.kind = "null" THEN fails("UserNotFound")
           ELSE /\ expenses' = Append(expenses,
                        expenseDoc(user.id, amount, category, description, date))
                /\ last' = Returned("logExpense", args,
                        [success |-> TRUE, expenseId |-> expenseId])

----------------------------------------------------------------------------
(* getExpenseSummary *)

\* args.category && args.category.trim() !== ""
categoryGiven(category) ==
    IsSome(category) /\ Get(category) # <<>> /\ trim(Get(category)) # <<>>

\* The comparison without toLowerCase() on the stored category.
categoryMatches_caseSensitive(expense, categoryToFilter) ==
    expense.category = categoryToFilter

\* expense.category.toLowerCase() === categoryToFilter
categoryMatches(expense, categoryToFilter) ==
    toLowerCase(expense.category) = categoryToFilter

\* expensesInRange, or its filter by args.category.trim().toLowerCase()
filteredExpenses(expensesInRange, category) ==
    IF categoryGiven(category)
    THEN SelectSeq(expensesInRange,
            LAMBDA expense :
                categoryMatches(expense, toLowerCase(trim(Get(category)))))
    ELSE expensesInRange

\* let totalAmount = 0; for (const expense of filtered) totalAmount += amount
RECURSIVE totalAmount(_)
totalAmount(filtered) ==
    IF filtered = <<>> THEN 0
    ELSE totalAmount(SubSeq(filtered, 1, Len(filtered) - 1))
         + filtered[Len(filtered)].amount

\* args.category?.trim()
echoedCategory(category) ==
    IF IsSome(category) THEN Some(trim(Get(category))) ELSE None

summaryResult(userId, startDate, endDate, category) ==
    LET expensesInRange == collect(by_userId_date(userId, startDate, endDate))
        filtered == filteredExpenses(expensesInRange, category)
    IN  [count |-> Len(filtered),
         totalAmount |-> totalAmount(filtered),
         category |-> echoedCategory(category),
         startDate |-> startDate,
         endDate |-> endDate]

getExpenseSummary(telegramChatId, startDate, endDate, category) ==
    LET args == [telegramChatId |-> telegramChatId, startDate |-> startDate,
                 endDate |-> endDate, category |-> category]
        user == findUser(telegramChatId)
    IN  /\ UNCHANGED <<users, expenses, category_feedback, now>>
        /\ last' =
             IF user.kind = "throws"
             THEN Threw("getExpenseSummary", args, "NotUnique")
             ELSE IF user.kind = "null"
             THEN Threw("getExpenseSummary", args, "UserNotFound")
             ELSE Returned("getExpenseSummary", args,
                    summaryResult(user.id, startDate, endDate, category))

----------------------------------------------------------------------------
(* getRecentExpenses *)

DefaultLimit == 5

MaxLimit == 50

\* Another default: args.limit ?? 10.
effectiveLimit_defaultTen(limit) == IF IsSome(limit) THEN Get(limit) ELSE 10

\* args.limit ?? 5
effectiveLimit(limit) == IF IsSome(limit) THEN Get(limit) ELSE DefaultLimit

\* limit <= 0 || limit > 50
limitRejected(limit) == limit <= 0 \/ limit > MaxLimit

\* The index read forwards: .take(limit) without .order("desc").
recentIds_ascending(userId, limit) == take(Ascending(by_userId(userId)), limit)

\* .withIndex("by_userId_date", q => q.eq("userId", user._id))
\* .order("desc").take(limit): document ids
recentIds(userId, limit) == take(orderDesc(by_userId(userId)), limit)

recentExpenses(userId, limit) ==
    [k \in 1..Len(recentIds(userId, limit)) |->
        LET id == recentIds(userId, limit)[k]
        IN  [_id |-> id,
             amount |-> expenses[id].amount,
             category |-> expenses[id].category,
             description |-> expenses[id].description,
             date |-> expenses[id].date]]

getRecentExpenses(telegramChatId, limitArg) ==
    LET args == [telegramChatId |-> telegramChatId, limit |-> limitArg]
        user == findUser(telegramChatId)
        limit == effectiveLimit(limitArg)
    IN  /\ UNCHANGED <<users, expenses, category_feedback, now>>
        /\ last' =
             IF user.kind = "throws"
             THEN Threw("getRecentExpenses", args, "NotUnique")
             ELSE IF user.kind = "null"
             THEN Threw("getRecentExpenses", args, "UserNotFound")
             ELSE IF limitRejected(limit)
             THEN Threw("getRecentExpenses", args, "InvalidLimit")
             ELSE Returned("getRecentExpenses", args,
                    recentExpenses(user.id, limit))

----------------------------------------------------------------------------
(* getExpensesForReport *)

\* expense.description ?? ""
reportDescription(description) ==
    IF IsSome(description) THEN Get(description) ELSE <<>>

\* The report read with .order("desc").
expensesToReport_descending(userId, startDate, endDate) ==
    Reverse(collect(by_userId_date(userId, startDate, endDate)))

expensesToReport(userId, startDate, endDate) ==
    collect(by_userId_date(userId, startDate, endDate))

reportRows(docs) ==
    [k \in 1..Len(docs) |->
        [date |-> docs[k].date,
         category |-> docs[k].category,
         amount |-> docs[k].amount,
         description |-> reportDescription(docs[k].description)]]

getExpensesForReport(telegramChatId, startDate, endDate) ==
    LET args == [telegramChatId |-> telegramChatId, startDate |-> startDate,
                 endDate |-> endDate]
        user == findUser(telegramChatId)
    IN  /\ UNCHANGED <<users, expenses, category_feedback, now>>
        /\ last' =
             IF user.kind = "throws"
             THEN Threw("getExpensesForReport", args, "NotUnique")
             ELSE IF user.kind = "null"
             THEN Threw("getExpensesForReport", args, "UserNotFound")
             ELSE Returned("getExpensesForReport", args,
                    reportRows(expensesToReport(user.id, startDate, endDate)))

----------------------------------------------------------------------------
(* recordCategoryFeedback *)

\* The comparison without trim().toLowerCase().
is_correction_exactMatch(ai_predicted_category, user_chosen_category) ==
    IF IsSome(ai_predicted_category)
    THEN Get(ai_predicted_category) # user_chosen_category
    ELSE FALSE

\* is_correction: false unless the AI predicted something and it differs
\* from the user's choice after trim().toLowerCase() on both.
is_correction(ai_predicted_category, user_chosen_category) ==
    IF IsSome(ai_predicted_category)
    THEN toLowerCase(trim(Get(ai_predicted_category)))
            # toLowerCase(trim(user_chosen_category))
    ELSE FALSE

\* The handler with the alternative its comment names for a missing user:
\* throw new Error("User not found, cannot record feedback.").
recordCategoryFeedback_throws(telegramChatId, original_text_for_ai, ai_predicted_category, ai_confidence, user_chosen_category) ==
    LET args == [telegramChatId |-> telegramChatId,
                 original_text_for_ai |-> original_text_for_ai,
                 ai_predicted_category |-> ai_predicted_category,
                 ai_confidence |-> ai_confidence,
                 user_chosen_category |-> user_chosen_category]
        user == findUser(telegramChatId)
        feedbackId == Len(category_feedback) + 1
    IN  /\ UNCHANGED <<users, expenses, now>>
        /\ IF user.kind = "throws"
           THEN /\ last' = Threw("recordCategoryFeedback", args, "NotUnique")
                /\ UNCHANGED category_feedback
           ELSE IF user.kind = "null"
           THEN /\ last' = Threw("recordCategoryFeedback", args,
                                 "UserNotFound")
                /\ UNCHANGED category_feedback
           ELSE /\ category_feedback' = Append(category_feedback,
                        [userId |-> user.id,
                         original_text_for_ai |-> original_text_for_ai,
                         ai_predicted_category |-> ai_predicted_category,
                         ai_confidence |-> ai_confidence,
                         user_chosen_category |-> user_chosen_category,
                         is_correction |->
                            is_correction(ai_predicted_category,
                                          user_chosen_category),
                         timestamp |-> now])
                /\ last' = Returned("recordCategoryFeedback", args,
                        [success |-> TRUE, feedbackId |-> feedbackId])

recordCategoryFeedback(telegramChatId, original_text_for_ai, ai_predicted_category, ai_confidence, user_chosen_category) ==
    LET args == [telegramChatId |-> telegramChatId,
                 original_text_for_ai |-> original_text_for_ai,
                 ai_predicted_category |-> ai_predicted_category,
                 ai_confidence |-> ai_confidence,
                 user_chosen_category |-> user_chosen_category]
        user == findUser(telegramChatId)
        feedbackId == Len(category_feedback) + 1
    IN  /\ UNCHANGED <<users, expenses, now>>
        /\ IF user.kind = "throws"
           THEN /\ last' = Threw("recordCategoryFeedback", args, "NotUnique")
                /\ UNCHANGED category_feedback
           ELSE IF user.kind = "null"
           THEN /\ last' = Returned("recordCategoryFeedback", args,
                        [success |-> FALSE,
                         message |-> "User not found for feedback."])
                /\ UNCHANGED category_feedback
           ELSE /\ category_feedback' = Append(category_feedback,
                        [userId |-> user.id,
                         original_text_for_ai |-> original_text_for_ai,
                         ai_predicted_category |-> ai_predicted_category,
                         ai_confidence |-> ai_confidence,
                         user_chosen_category |-> user_chosen_category,
                         is_correction |->
                            is_correction(ai_predicted_category,
                                          user_chosen_category),
                         timestamp |-> now])
                /\ last' = Returned("recordCategoryFeedback", args,
                        [success |-> TRUE, feedbackId |-> feedbackId])

----------------------------------------------------------------------------
(* The clock behind Date.now() *)

Tick ==
    /\ now' = now + TickMs
    /\ last' = Returned("Tick", <<>>, <<>>)
    /\ UNCHANGED <<users, expenses, category_feedback>>

----------------------------------------------------------------------------
(* Argument values the callers send *)

Food == <<"F", "o", "o", "d">>

FoodPadded == <<" ", "F", "o", "o", "d", " ">>

foodPadded == <<"\t", "f", "o", "o", "d", " ">>

Transport == <<"T", "r", "a", "n", "s", "p", "o", "r", "t">>

Blank == <<" ", " ">>

lunchPadded == <<" ", "l", "u", "n", "c", "h", " ">>

secret == <<"s", "e", "c", "r", "e", "t">>

short == <<"s", "e", "c", "r", "e">>

\* Dates around the tolerance window of the first clock reading.
Plus23h == Now0 + DayMs - HourMs

Plus25h == Now0 + DayMs + HourMs

Init ==
    /\ users = <<>>
    /\ expenses = <<>>
    /\ category_feedback = <<>>
    /\ now = Now0
    /\ last = Returned("Init", <<>>, <<>>)

\* One step of the system for callers whose arguments come from the sets of D
\* and a store limited to D's sizes.
NextOver(D) ==
    \/ \E username \in D.usernames, password \in D.passwords,
          telegramChatId \in D.registerChats :
            /\ Len(users) < D.maxUsers
            /\ registerUser(username, password, telegramChatId)
    \/ \E telegramChatId \in D.chats, amount \in D.amounts,
          category \in D.categories, description \in D.descriptions,
          date \in D.dates :
            /\ Len(expenses) < D.maxExpenses
            /\ logExpense(telegramChatId, amount, category, description, date)
    \/ \E telegramChatId \in D.chats, amount \in D.amounts,
          category \in D.categories, description \in D.descriptions,
          date \in D.dates :
            /\ Len(expenses) < D.maxExpenses
            /\ logExpense_convex(telegramChatId, amount, category,
                                 description, date)
    \/ \E telegramChatId \in D.chats, startDate \in D.startDates,
          endDate \in D.endDates, category \in D.filters :
            getExpenseSummary(telegramChatId, startDate, endDate, category)
    \/ \E telegramChatId \in D.chats, limit \in D.limits :
            getRecentExpenses(telegramChatId, limit)
    \/ \E telegramChatId \in D.chats, startDate \in D.startDates,
          endDate \in D.endDates :
            getExpensesForReport(telegramChatId, startDate, endDate)
    \/ \E telegramChatId \in D.feedbackChats, text \in D.texts,
          predicted \in D.predicted, confidence \in D.confidences,
          chosen \in D.chosen :
            /\ Len(category_feedback) < D.maxFeedback
            /\ recordCategoryFeedback(telegramChatId, text, predicted,
                                      confidence, chosen)

----------------------------------------------------------------------------
(* The whole system: every operation, and the clock *)

MaxUsers == 2

MaxExpenses == 2

MaxFeedback == 1

MaxTicks == 1

General ==
    [usernames |-> {"alice", "bob"},
     passwords |-> {secret, short},
     registerChats |-> {None, Some("c1")},
     maxUsers |-> MaxUsers,
     chats |-> {"c1"},
     amounts |-> {0, 10},
     categories |-> {FoodPadded, Blank},
     descriptions |-> {Some(lunchPadded)},
     dates |-> {-1, Plus23h, Plus25h},
     maxExpenses |-> MaxExpenses,
     startDates |-> {0},
     endDates |-> {Plus25h},
     filters |-> {None},
     limits |-> {None},
     feedbackChats |-> {"c1"},
     texts |-> {"coffee 4"},
     predicted |-> {None},
     confidences |-> {None},
     chosen |-> {Transport},
     maxFeedback |-> MaxFeedback]

Next ==
    \/ NextOver(General)
    \/  /\ now < Now0 + MaxTicks * TickMs
        /\ Tick

Spec == Init /\ [][Next]_vars

----------------------------------------------------------------------------
(* Vocabulary of the properties, stated on the store and on what the       *)
(* callers saw, independently of how the handlers compute.                  *)

\* Some user record carries this chat id.
Registered(chat) ==
    \E i \in DOMAIN users : users[i].telegramChatId = <<chat>>

\* The user records carrying this chat id.
Holders(chat) ==
    {i \in DOMAIN users : users[i].telegramChatId = <<chat>>}

\* The chat id resolves: exactly one user record carries it.
Resolves(chat) == \E i \in Holders(chat) : Holders(chat) = {i}

Owner(chat) == CHOOSE i \in Holders(chat) : TRUE

\* Dropping the first a and the last b characters of s drops whitespace
\* only, and leaves nothing or a string that neither starts nor ends with
\* whitespace.
CutsWhitespace(s, a, b) ==
    /\ a + b <= Len(s)
    /\ \A k \in 1..a : s[k] \in Whitespace
    /\ \A k \in (Len(s) - b + 1)..Len(s) : s[k] \in Whitespace
    /\ a + b < Len(s) =>
          s[a + 1] \notin Whitespace /\ s[Len(s) - b] \notin Whitespace

\* s without its leading and trailing whitespace.
Trimmed(s) ==
    LET cut == CHOOSE c \in (0..Len(s)) \X (0..Len(s)) :
                    CutsWhitespace(s, c[1], c[2])
    IN  SubSeq(s, cut[1] + 1, Len(s) - cut[2])

BlankString(s) == \A k \in 1..Len(s) : s[k] \in Whitespace

CasePairs ==
    {<<"F", "f">>, <<"O", "o">>, <<"D", "d">>, <<"T", "t">>,
     <<"B", "b">>, <<"U", "u">>, <<"S", "s">>}

SameLetter(x, y) == x = y \/ <<x, y>> \in CasePairs \/ <<y, x>> \in CasePairs

\* a and b are the same string up to the case of their letters.
EqualIgnoringCase(a, b) ==
    Len(a) = Len(b) /\ \A k \in 1..Len(a) : SameLetter(a[k], b[k])

\* The user's stored expenses dated within [startDate, endDate].
Matching(user, startDate, endDate) ==
    {i \in DOMAIN expenses :
        /\ expenses[i].userId = user
        /\ startDate <= expenses[i].date
        /\ expenses[i].date <= endDate}

RECURSIVE SumOfAmounts(_)
SumOfAmounts(ids) ==
    IF ids = {} THEN 0
    ELSE LET i == CHOOSE x \in ids : TRUE
         IN  expenses[i].amount + SumOfAmounts(ids \ {i})

----------------------------------------------------------------------------
(* Properties of the whole system *)

\* C1: for every registered user U, a logExpense call for U with amount > 0,
\* a category that is non-empty after trim and 0 <= date <= now + 24h
\* succeeds, and every later getSummary for U without a category filter
\* succeeds and counts each of U's stored expenses in its range, adding its
\* amount to totalAmount.
LoggedExpenseIsCounted ==
    /\ ( /\ last.op = "logExpense"
         /\ Registered(last.args.telegramChatId)
         /\ last.args.amount > 0
         /\ ~BlankString(last.args.category)
         /\ 0 <= last.args.date
         /\ last.args.date <= last.args.now + DayMs )
       => last.ok
    /\ ( /\ last.op = "getExpenseSummary"
         /\ Registered(last.args.telegramChatId)
         /\ last.args.category = None )
       => /\ last.ok
          /\ LET mine == {i \in DOMAIN expenses :
                            /\ expenses[i].userId
                                  \in Holders(last.args.telegramChatId)
                            /\ last.args.startDate <= expenses[i].date
                            /\ expenses[i].date <= last.args.endDate}
             IN  /\ last.result.count >= Cardinality(mine)
                 /\ last.result.totalAmount >= SumOfAmounts(mine)

\* C4: a logExpense call for a resolved user whose amount is <= 0, whose
\* category is empty after trim, or whose date is < 0 or > now + 24h fails
\* with the matching validation error; and every stored expense has
\* amount > 0, a non-empty category and a date >= 0.
InvalidExpenseIsRejected ==
    /\ ( /\ last.op = "logExpense"
         /\ Resolves(last.args.telegramChatId)
         /\ \/ last.args.amount <= 0
            \/ BlankString(last.args.category)
            \/ last.args.date < 0
            \/ last.args.date > last.args.now + DayMs )
       => /\ ~last.ok
          /\ \/ last.error = "InvalidAmount" /\ last.args.amount <= 0
             \/ last.error = "InvalidCategory"
                    /\ BlankString(last.args.category)
             \/ last.error = "InvalidDate"
                    /\ \/ last.args.date < 0
                       \/ last.args.date > last.args.now + DayMs
    /\ \A i \in DOMAIN expenses :
          /\ expenses[i].amount > 0
          /\ expenses[i].category # <<>>
          /\ expenses[i].date >= 0

\* C5: no two user records carry the same telegramChatId when it is present.
ChatIdIsUnique ==
    \A i \in DOMAIN users, j \in DOMAIN users :
        ( /\ i # j
          /\ users[i].telegramChatId # None )
        => users[i].telegramChatId # users[j].telegramChatId

----------------------------------------------------------------------------
(* Summaries and reports: two users, amounts and dates that differ *)

T1 == HourMs

T2 == 2 * HourMs

T3 == 3 * HourMs

\* Size of the tables a scenario is not about.
MaxAside == 1

MaxExpensesSummary == 2

Summaries ==
    [usernames |-> {"alice", "bob"},
     passwords |-> {secret},
     registerChats |-> {Some("c1"), Some("c2")},
     maxUsers |-> MaxUsers,
     chats |-> {"c1", "c2"},
     amounts |-> {10, 20},
     categories |-> {Food},
     descriptions |-> {None},
     dates |-> {T1, T2},
     maxExpenses |-> MaxExpensesSummary,
     startDates |-> {T1, T2},
     endDates |-> {T1, T2},
     filters |-> {None, Some(Blank)},
     limits |-> {Some(1)},
     feedbackChats |-> {"c9"},
     texts |-> {"coffee 4"},
     predicted |-> {None},
     confidences |-> {None},
     chosen |-> {Transport},
     maxFeedback |-> MaxAside]

NextSummary == NextOver(Summaries)

SpecSummary == Init /\ [][NextSummary]_vars

\* C2: a getSummary that applies no category filter returns, for the user
\* its chat id resolves to, count = the number of that user's stored
\* expenses with startDate <= date <= endDate and totalAmount = the sum of
\* their amounts; it returns (count 0, totalAmount 0 when nothing matches,
\* as when startDate > endDate) whenever the chat id resolves.
SummaryCountsAndSums ==
    last.op = "getExpenseSummary" =>
        LET chat == last.args.telegramChatId
            startDate == last.args.startDate
            endDate == last.args.endDate
            unfiltered == \/ last.args.category = None
                          \/ BlankString(last.args.category[1])
        IN  /\ Resolves(chat) => last.ok
            /\ (last.ok /\ unfiltered) =>
                  LET hits == Matching(Owner(chat), startDate, endDate)
                  IN  /\ last.result.count = Cardinality(hits)
                      /\ last.result.totalAmount = SumOfAmounts(hits)
                      /\ hits = {} => /\ last.result.count = 0
                                      /\ last.result.totalAmount = 0
                      /\ startDate > endDate => last.result.count = 0

\* A summary over one of two stored expenses of the user.
SummaryCountsAndSumsWitness ==
    /\ last.op = "getExpenseSummary"
    /\ last.ok
    /\ last.args.category = None
    /\ Len(expenses) = 2
    /\ expenses[1].userId = expenses[2].userId
    /\ last.result.count = 1
    /\ last.result.totalAmount = 20

\* The row getForReport returns for a stored expense.
ReportRow(e) ==
    [date |-> e.date, category |-> e.category, amount |-> e.amount,
     description |-> IF e.description = None THEN <<>> ELSE e.description[1]]

\* C10: getForReport returns exactly one entry for each stored expense of
\* the resolved user with startDate <= date <= endDate, none dropped or
\* duplicated and with no cap, in non-decreasing date order.
ReportIsExactAndChronological ==
    (last.op = "getExpensesForReport" /\ last.ok) =>
        LET rows == last.result
            hits == Matching(Owner(last.args.telegramChatId),
                             last.args.startDate, last.args.endDate)
        IN  /\ Len(rows) = Cardinality(hits)
            /\ \A k \in DOMAIN rows :
                  \E i \in hits : rows[k] = ReportRow(expenses[i])
            /\ \A i \in hits :
                  Cardinality({k \in DOMAIN rows :
                                  rows[k] = ReportRow(expenses[i])})
                  = Cardinality({j \in hits :
                                  ReportRow(expenses[j])
                                      = ReportRow(expenses[i])})
            /\ \A k \in 1..(Len(rows) - 1) : rows[k].date <= rows[k + 1].date

\* A report of two expenses logged in reverse chronological order.
ReportIsExactAndChronologicalWitness ==
    /\ last.op = "getExpensesForReport"
    /\ last.ok
    /\ Len(last.result) = 2
    /\ Len(expenses) = 2
    /\ expenses[1].date > expenses[2].date
    /\ last.result[1].date < last.result[2].date

----------------------------------------------------------------------------
(* Category filters: one user, categories that differ in case and padding *)

FOOD == <<"F", "O", "O", "D">>

MaxExpensesCategory == 2

Categories ==
    [usernames |-> {"alice"},
     passwords |-> {secret},
     registerChats |-> {Some("c1")},
     maxUsers |-> MaxUsers,
     chats |-> {"c1"},
     amounts |-> {10, 20},
     categories |-> {Food, foodPadded, Transport},
     descriptions |-> {None},
     dates |-> {T1, T2},
     maxExpenses |-> MaxExpensesCategory,
     startDates |-> {T1, T2},
     endDates |-> {T2},
     filters |-> {None, Some(Blank), Some(foodPadded), Some(FOOD),
                  Some(Transport)},
     limits |-> {Some(1)},
     feedbackChats |-> {"c9"},
     texts |-> {"coffee 4"},
     predicted |-> {None},
     confidences |-> {None},
     chosen |-> {Transport},
     maxFeedback |-> MaxAside]

NextCategory == NextOver(Categories)

SpecCategory == Init /\ [][NextCategory]_vars

\* C3: a getSummary whose category filter c is non-empty after trim counts
\* and sums exactly the resolved user's in-range expenses whose stored
\* category equals trim(c) up to letter case.
CategoryFilterIgnoresCase ==
    ( /\ last.op = "getExpenseSummary"
      /\ last.ok
      /\ last.args.category # None
      /\ ~BlankString(last.args.category[1]) )
    => \E t \in {Trimmed(last.args.category[1])} :
          /\ t # <<>>
          /\ LET hits ==
                    {i \in Matching(Owner(last.args.telegramChatId),
                                    last.args.startDate, last.args.endDate) :
                        EqualIgnoringCase(expenses[i].category, t)}
             IN  /\ last.result.count = Cardinality(hits)
                 /\ last.result.totalAmount = SumOfAmounts(hits)

\* (10, "Food", T1) and (20, "Transport", T2) are stored; the summary of
\* [T1, T2] filtered by "food" (padded) is count 1, totalAmount 10.
CategoryFilterIgnoresCaseWitness ==
    /\ last.op = "getExpenseSummary"
    /\ last.ok
    /\ last.args.category = Some(foodPadded)
    /\ last.args.startDate = T1
    /\ last.args.endDate = T2
    /\ Len(expenses) = 2
    /\ expenses[1].category = Food
    /\ expenses[1].amount = 10
    /\ expenses[1].date = T1
    /\ expenses[2].category = Transport
    /\ expenses[2].amount = 20
    /\ expenses[2].date = T2
    /\ last.result.count = 1
    /\ last.result.totalAmount = 10

\* C11: the category of a getSummary result is present if and only if a
\* category filter was applied, that is the category argument is non-empty
\* after trim, and is then the trimmed argument; for a missing or
\* whitespace-only argument it is absent, not an empty string.
SummaryEchoesAppliedFilter ==
    (last.op = "getExpenseSummary" /\ last.ok) =>
        LET applied == /\ last.args.category # None
                       /\ ~BlankString(last.args.category[1])
        IN  /\ (last.result.category # None) <=> applied
            /\ applied =>
                  last.result.category = <<Trimmed(last.args.category[1])>>

----------------------------------------------------------------------------
(* Recent expenses: two users, three dates *)

MaxExpensesRecent == 3

Recents ==
    [usernames |-> {"alice", "bob"},
     passwords |-> {secret},
     registerChats |-> {Some("c1"), Some("c2")},
     maxUsers |-> MaxUsers,
     chats |-> {"c1", "c2"},
     amounts |-> {10},
     categories |-> {Food},
     descriptions |-> {None},
     dates |-> {T1, T2, T3},
     maxExpenses |-> MaxExpensesRecent,
     startDates |-> {T1},
     endDates |-> {T3},
     filters |-> {None},
     limits |-> {None, Some(1), Some(2)},
     feedbackChats |-> {"c9"},
     texts |-> {"coffee 4"},
     predicted |-> {None},
     confidences |-> {None},
     chosen |-> {Transport},
     maxFeedback |-> MaxAside]

NextRecent == NextOver(Recents)

SpecRecent == Init /\ [][NextRecent]_vars

\* The limit a getRecent call asked for: the one given, or 5.
AskedLimit == IF last.args.limit = None THEN 5 ELSE last.args.limit[1]

\* C6: getRecent with a valid limit returns min(limit, number of the user's
\* expenses) entries, each a distinct stored expense of the user, ordered by
\* date descending, and no omitted expense of the user has a date strictly
\* greater than a returned one.
RecentAreTheLatest ==
    (last.op = "getRecentExpenses" /\ last.ok) =>
        LET rows == last.result
            mine == {i \in DOMAIN expenses :
                        expenses[i].userId = Owner(last.args.telegramChatId)}
            shown == {rows[k]._id : k \in DOMAIN rows}
        IN  /\ Len(rows) = IF AskedLimit < Cardinality(mine)
                           THEN AskedLimit ELSE Cardinality(mine)
            /\ shown \subseteq mine
            /\ Cardinality(shown) = Len(rows)
            /\ \A k \in DOMAIN rows :
                  /\ rows[k].date = expenses[rows[k]._id].date
                  /\ rows[k].amount = expenses[rows[k]._id].amount
                  /\ rows[k].category = expenses[rows[k]._id].category
            /\ \A k \in 1..(Len(rows) - 1) : rows[k].date >= rows[k + 1].date
            /\ \A i \in mine \ shown : \A k \in DOMAIN rows :
                  expenses[i].date <= rows[k].date

\* Expenses dated T1 < T2 < T3 of one user, logged in that order;
\* getRecent(limit = 2) returned [T3, T2].
RecentAreTheLatestWitness ==
    /\ last.op = "getRecentExpenses"
    /\ last.ok
    /\ last.args.limit = Some(2)
    /\ Len(expenses) = 3
    /\ \A i \in 1..3 : expenses[i].userId = Owner(last.args.telegramChatId)
    /\ expenses[1].date = T1
    /\ expenses[2].date = T2
    /\ expenses[3].date = T3
    /\ Len(last.result) = 2
    /\ last.result[1].date = T3
    /\ last.result[2].date = T2

----------------------------------------------------------------------------
(* Limits of getRecent: one user with more expenses than the default limit *)

MaxExpensesLimit == 6

Limits ==
    [usernames |-> {"alice"},
     passwords |-> {secret},
     registerChats |-> {Some("c1")},
     maxUsers |-> MaxUsers,
     chats |-> {"c1"},
     amounts |-> {10},
     categories |-> {Food},
     descriptions |-> {None},
     dates |-> {T1},
     maxExpenses |-> MaxExpensesLimit,
     startDates |-> {T1},
     endDates |-> {T1},
     filters |-> {None},
     limits |-> {None} \cup {Some(n) : n \in -1..(MaxLimit + 2)},
     feedbackChats |-> {"c9"},
     texts |-> {"coffee 4"},
     predicted |-> {None},
     confidences |-> {None},
     chosen |-> {Transport},
     maxFeedback |-> MaxAside]

NextLimit == NextOver(Limits)

SpecLimit == Init /\ [][NextLimit]_vars

\* C7: getRecent for a resolved user uses limit 5 when none is given, fails
\* with InvalidLimit for every limit outside 1..50 and succeeds for every
\* limit from 1 to 50.
LimitDefaultsAndBounds ==
    ( /\ last.op = "getRecentExpenses"
      /\ Resolves(last.args.telegramChatId) )
    => LET mine == {i \in DOMAIN expenses :
                        expenses[i].userId = Owner(last.args.telegramChatId)}
       IN  /\ last.args.limit = None =>
                /\ last.ok
                /\ Len(last.result) =
                      IF Cardinality(mine) > 5 THEN 5 ELSE Cardinality(mine)
           /\ last.args.limit # None =>
                /\ last.args.limit[1] \in 1..50 => last.ok
                /\ last.args.limit[1] \notin 1..50 =>
                      ~last.ok /\ last.error = "InvalidLimit"

\* getRecent without a limit, for a user with six expenses, returned five.
LimitDefaultsAndBoundsWitness ==
    /\ last.op = "getRecentExpenses"
    /\ last.args.limit = None
    /\ last.ok
    /\ Len(expenses) = 6
    /\ Len(last.result) = 5

----------------------------------------------------------------------------
(* The feedback ledger: two users, predictions that differ from the choice *)
(* in case and padding, or in substance                                     *)

MaxFeedbackLedger == 2

Feedbacks ==
    [usernames |-> {"alice", "bob"},
     passwords |-> {secret},
     registerChats |-> {Some("c1"), Some("c2")},
     maxUsers |-> MaxUsers,
     chats |-> {"c1"},
     amounts |-> {10},
     categories |-> {Food},
     descriptions |-> {None},
     dates |-> {T1},
     maxExpenses |-> MaxAside,
     startDates |-> {T1},
     endDates |-> {T1},
     filters |-> {None},
     limits |-> {None},
     feedbackChats |-> {"c1", "c2"},
     texts |-> {"coffee 4"},
     predicted |-> {None, Some(FoodPadded), Some(Transport)},
     confidences |-> {Some(90)},
     chosen |-> {foodPadded, Transport},
     maxFeedback |-> MaxFeedbackLedger]

NextFeedback == NextOver(Feedbacks)

SpecFeedback == Init /\ [][NextFeedback]_vars

\* C8: every stored feedback record has is_correction = TRUE if and only
\* if a predicted category was supplied and its trimmed form differs, up to
\* letter case, from the trimmed chosen category.
CorrectionFlagIsDerived ==
    \A i \in DOMAIN category_feedback :
        LET f == category_feedback[i]
        IN  f.is_correction =
              /\ f.ai_predicted_category # None
              /\ ~EqualIgnoringCase(Trimmed(f.ai_predicted_category[1]),
                                    Trimmed(f.user_chosen_category))

\* The ledger holds " Food " / "\tfood " flagged FALSE and
\* " Food " / "Transport" flagged TRUE.
CorrectionFlagIsDerivedWitness ==
    /\ Len(category_feedback) = 2
    /\ category_feedback[1].ai_predicted_category = Some(FoodPadded)
    /\ category_feedback[1].user_chosen_category = foodPadded
    /\ category_feedback[1].is_correction = FALSE
    /\ category_feedback[2].ai_predicted_category = Some(FoodPadded)
    /\ category_feedback[2].user_chosen_category = Transport
    /\ category_feedback[2].is_correction = TRUE

\* C9: recordFeedback with a chat id no user carries returns the dropped
\* outcome without an error and changes no table; with a chat id that
\* resolves it appends exactly one record owned by that user; and no step
\* modifies or removes a stored feedback record.
FeedbackIsDroppedOrAppended ==
    [][ /\ Len(category_feedback') >= Len(category_feedback)
        /\ \A i \in DOMAIN category_feedback :
              category_feedback'[i] = category_feedback[i]
        /\ last'.op = "recordCategoryFeedback" =>
              LET chat == last'.args.telegramChatId
              IN  /\ Holders(chat) = {} =>
                        /\ last'.ok
                        /\ last'.result.success = FALSE
                        /\ UNCHANGED <<users, expenses, category_feedback>>
                  /\ Resolves(chat) =>
                        /\ last'.ok
                        /\ last'.result.success = TRUE
                        /\ Len(category_feedback')
                              = Len(category_feedback) + 1
                        /\ category_feedback'[Len(category_feedback')].userId
                              = Owner(chat)
                        /\ UNCHANGED <<users, expenses>>
      ]_vars

\* A second record was appended for a resolved user.
FeedbackIsDroppedOrAppendedWitness ==
    /\ last.op = "recordCategoryFeedback"
    /\ last.ok
    /\ last.result.success = TRUE
    /\ Len(category_feedback) = 2
    /\ category_feedback[2].userId = Owner(last.args.telegramChatId)

----------------------------------------------------------------------------
(* Isolation of users: two users logging expenses in any interleaving *)

MaxExpensesIsolation == 2

Isolation ==
    [usernames |-> {"alice", "bob"},
     passwords |-> {secret},
     registerChats |-> {Some("c1"), Some("c2")},
     maxUsers |-> MaxUsers,
     chats |-> {"c1", "c2"},
     amounts |-> {10},
     categories |-> {Food},
     descriptions |-> {None},
     dates |-> {T1, T2},
     maxExpenses |-> MaxExpensesIsolation,
     startDates |-> {T1},
     endDates |-> {T2},
     filters |-> {None},
     limits |-> {None},
     feedbackChats |-> {"c9"},
     texts |-> {"coffee 4"},
     predicted |-> {None},
     confidences |-> {None},
     chosen |-> {Transport},
     maxFeedback |-> MaxAside]

NextIsolation == NextOver(Isolation)

SpecIsolation == Init /\ [][NextIsolation]_vars

\* What the three reads return for one user: summaries of the whole range
\* and of its last day, without and with a category filter, the recent list
\* at the default limit and at limit 1, and the reports of the same ranges.
ReadsFor(user) ==
    [summary |-> [q \in {<<T1, T2, None>>, <<T2, T2, Some(Food)>>} |->
                    summaryResult(user, q[1], q[2], q[3])],
     recent |-> [limit \in {1, DefaultLimit} |-> recentExpenses(user, limit)],
     report |-> [q \in {<<T1, T2>>, <<T2, T2>>} |->
                    reportRows(expensesToReport(user, q[1], q[2]))]]

\* C12: a logExpense call that stores an expense for user V leaves the
\* result of every getSummary, getRecent and getForReport for every other
\* user U as it was, and leaves the resolution of every chat id as it was.
ReadsOfOthersUntouched ==
    [][ (last'.op = "logExpense" /\ last'.ok) =>
            /\ Len(expenses') = Len(expenses) + 1
            /\ \A chat \in {"c1", "c2"} : Holders(chat)' = Holders(chat)
            /\ \A U \in DOMAIN users :
                  U # expenses'[Len(expenses')].userId
                      => ReadsFor(U)' = ReadsFor(U)
      ]_vars

\* An expense was just logged for one user while the other has one stored,
\* which the other's summary of [T1, T2] counts.
ReadsOfOthersUntouchedWitness ==
    /\ last.op = "logExpense"
    /\ last.ok
    /\ Len(users) = 2
    /\ Len(expenses) = 2
    /\ expenses[1].userId # expenses[2].userId
    /\ ReadsFor(expenses[1].userId).summary[<<T1, T2, None>>].count = 1

====
